---------------------------- MODULE Spec2Model ----------------------------
(***************************************************************************)
(* A model of ClusterWrap: the import-time choice of the default cluster   *)
(* factory (ClusterWrap/__init__.py) and the cluster wrappers' life cycle  *)
(* (ClusterWrap/clusters.py).                                              *)
(***************************************************************************)
EXTENDS Integers, Sequences, FiniteSets, TLC

VARIABLES
    \* ---- ClusterWrap/__init__.py ----
    onPath,     \* the executables shutil.which finds on the search path
    status,     \* the raw wait status os.system returns for each executable's check
    imported,   \* whether the package's module-level code has run
    cluster,    \* the module-level binding `cluster`
    assigned,   \* every value bound to `cluster`, in order of assignment
    ran,        \* the commands handed to os.system, in order
    \* ---- ClusterWrap/clusters.py ----
    config,     \* dask.config.config: leaf path -> scalar
    files,      \* the yaml files under ~/.config/dask: path -> <<>> or <<content>>
    wr,         \* the wrapper objects' attributes
    cli,        \* the Client objects
    clus,       \* the cluster objects
    lastOp,     \* the most recent wrapper operation, with the calls it made
    lastOptions \* the options of the most recent modify_dask_config call

selVars == <<onPath, status, imported, cluster, assigned, ran>>

wrapVars == <<config, files, wr, cli, clus, lastOp, lastOptions>>

vars == <<onPath, status, imported, cluster, assigned, ran,
          config, files, wr, cli, clus, lastOp, lastOptions>>

-----------------------------------------------------------------------------
(* ClusterWrap/__init__.py                                                   *)

Executables == {"bsub", "srun"}

Factories == {"local_cluster", "janelia_lsf_cluster", "slurm_cluster"}

\* The raw status os.system('bsub -V') is compared with: 127 << 8, the shell's
\* "command not found".
Sentinel == 32512

\* Raw wait statuses of a check: exit 0, killed by signal 9, exit 1, exit 2,
\* exit 126, exit 127 (Sentinel), exit 255.
Statuses == {0, 9, 256, 512, 32256, Sentinel, 65280}

\* os.WEXITSTATUS: bits 8..15 of the raw wait status.
WEXITSTATUS(s) == (s \div 256) % 256

Command(exe) == IF exe = "bsub" THEN "bsub -V" ELSE "srun --version"

\* which(exe) is not None
Which(exe) == exe \in onPath

\* A slip in line 9: the sentinel test the other way round.
BsubCheckEquals(raw) == raw = Sentinel

\* __init__.py line 9: the high-throughput check as the code makes it.
BsubCheck(raw) == raw # Sentinel

\* A slip in line 17: the raw status compared with 0, not the decoded one.
SrunCheckRaw(raw) == raw = 0

\* __init__.py line 17: the batch-queue check as the code makes it.
SrunCheck(raw) == WEXITSTATUS(raw) = 0

\* A slip in lines 8-10: the check run without asking which() first.
BsubBranchUnguarded ==
    [binds |-> IF BsubCheck(status["bsub"])
               THEN <<"janelia_lsf_cluster">> ELSE <<>>,
     runs  |-> <<Command("bsub")>>]

\* Lines 8-10: the bindings made by the bsub branch and the commands it runs.
BsubBranch ==
    IF Which("bsub")
    THEN [binds |-> IF BsubCheck(status["bsub"])
                    THEN <<"janelia_lsf_cluster">> ELSE <<>>,
          runs  |-> <<Command("bsub")>>]
    ELSE [binds |-> <<>>, runs |-> <<>>]

\* Lines 12-18 as the second arm of an if / else-if chain: skipped whenever
\* bsub is on the path.
SrunBranchElse ==
    IF ~Which("bsub") /\ Which("srun")
    THEN [binds |-> IF SrunCheck(status["srun"])
                    THEN <<"slurm_cluster">> ELSE <<>>,
          runs  |-> <<Command("srun")>>]
    ELSE [binds |-> <<>>, runs |-> <<>>]

\* Lines 12-18: the bindings made by the srun branch and the commands it runs.
\* The branch is an `if` of its own: it does not look at what lines 8-10 did.
SrunBranch ==
    IF Which("srun")
    THEN [binds |-> IF SrunCheck(status["srun"])
                    THEN <<"slurm_cluster">> ELSE <<>>,
          runs  |-> <<Command("srun")>>]
    ELSE [binds |-> <<>>, runs |-> <<>>]

Last(s) == s[Len(s)]

\* The module-level code, lines 6-18.
Import ==
    /\ ~imported
    /\ LET b == BsubBranch
           s == SrunBranch
           a == <<"local_cluster">> \o b.binds \o s.binds
       IN /\ assigned' = a
          /\ cluster' = Last(a)
          /\ ran' = b.runs \o s.runs
    /\ imported' = TRUE
    /\ UNCHANGED <<onPath, status>>
    /\ UNCHANGED wrapVars


-----------------------------------------------------------------------------
(* The process-wide dask configuration (dask.config.config), as             *)
(* modify_dask_config uses it: clusters.py lines 39-45                       *)

\* An option name is a dotted key, held as the sequence of its segments.
KeyTmp     == <<"temporary-directory">>
KeyTmpAlt  == <<"temporary_directory">>
KeyTimeouts == <<"distributed", "comm", "timeouts">>
KeyConnect == <<"distributed", "comm", "timeouts", "connect">>
KeyTcp     == <<"distributed", "comm", "timeouts", "tcp">>

\* A value is a scalar or a dictionary; either is held as its leaves: a scalar v
\* as the one leaf <<>> :> v, a dictionary as the leaves below it.
Scalar(v) == <<>> :> v

\* dask.config.canonical_name's other spelling of a segment: hyphens and
\* underscores swapped (segments with neither are left alone).
AltName(k) ==
    IF k = "temporary-directory" THEN "temporary_directory"
    ELSE IF k = "temporary_directory" THEN "temporary-directory"
    ELSE k

IsPrefix(p, q) == Len(p) <= Len(q) /\ SubSeq(q, 1, Len(p)) = p

\* The names held by the dictionary at path q of configuration cfg.
Children(cfg, q) ==
    {x[Len(q) + 1] : x \in {y \in DOMAIN cfg : IsPrefix(q, y) /\ Len(y) > Len(q)}}

\* dask.config.canonical_name(k, d): k if d holds it, else its other spelling
\* if d holds that, else k.
CanonicalName(k, cfg, q) ==
    IF k \in Children(cfg, q) THEN k
    ELSE IF AltName(k) \in Children(cfg, q) THEN AltName(k)
    ELSE k

RECURSIVE CanonicalPath(_, _, _)
CanonicalPath(cfg, done, rest) ==
    IF rest = <<>> THEN done
    ELSE CanonicalPath(cfg, Append(done, CanonicalName(Head(rest), cfg, done)),
                       Tail(rest))

\* dask.config.set's assignment of one key: it walks the nested dictionaries
\* along the key's segments and fails (TypeError) when a scalar is in the way.
AssignRaises(cfg, key) ==
    LET p == CanonicalPath(cfg, <<>>, key)
    IN \E n \in 1..(Len(p) - 1) : SubSeq(p, 1, n) \in DOMAIN cfg

\* ... and otherwise binds the last segment to the value: whatever was under
\* that name, a scalar or a whole dictionary, is replaced.
Assign(cfg, key, val) ==
    LET p    == CanonicalPath(cfg, <<>>, key)
        kept == {x \in DOMAIN cfg : ~IsPrefix(p, x)}
        new  == {p \o r : r \in DOMAIN val}
    IN [x \in kept \cup new |->
            IF x \in new THEN val[SubSeq(x, Len(p) + 1, Len(x))] ELSE cfg[x]]

\* A variant of dask.config.set that starts from an empty configuration:
\* the options replace the configuration instead of being merged into it.
RECURSIVE ConfigSetFresh(_, _)
ConfigSetFresh(cfg, options) ==
    IF options = <<>> THEN [raised |-> FALSE, config |-> <<>>]
    ELSE LET init == ConfigSetFresh(cfg, SubSeq(options, 1, Len(options) - 1))
             o    == options[Len(options)]
         IN IF init.raised THEN init
            ELSE IF AssignRaises(init.config, o.key)
                 THEN [raised |-> TRUE, config |-> init.config]
                 ELSE [raised |-> FALSE,
                       config |-> Assign(init.config, o.key, o.val)]

\* dask.config.set(options), clusters.py line 40: the keys are assigned one
\* after the other, in the dictionary's order; a failing key stops the call and
\* leaves the earlier keys assigned.
RECURSIVE ConfigSet(_, _)
ConfigSet(cfg, options) ==
    IF options = <<>> THEN [raised |-> FALSE, config |-> cfg]
    ELSE LET init == ConfigSet(cfg, SubSeq(options, 1, Len(options) - 1))
             o    == options[Len(options)]
         IN IF init.raised THEN init
            ELSE IF AssignRaises(init.config, o.key)
                 THEN [raised |-> TRUE, config |-> init.config]
                 ELSE [raised |-> FALSE,
                       config |-> Assign(init.config, o.key, o.val)]

\* dask.config.get(key): the value at the key, as its leaves (empty: not set).
ConfigGet(cfg, key) ==
    LET p  == CanonicalPath(cfg, <<>>, key)
        at == {x \in DOMAIN cfg : IsPrefix(p, x)}
    IN [r \in {SubSeq(x, Len(p) + 1, Len(x)) : x \in at} |-> cfg[p \o r]]

\* {**defaults, **config}, clusters.py lines 135, 243, 266: a Python dictionary
\* merge; keys are compared as written.
HasKey(d, k) == \E i \in 1..Len(d) : d[i].key = k

ValueOf(d, k) == d[CHOOSE i \in 1..Len(d) : d[i].key = k].val

RECURSIVE DropKeys(_, _)
DropKeys(d, other) ==
    IF d = <<>> THEN <<>>
    ELSE IF HasKey(other, Head(d).key) THEN DropKeys(Tail(d), other)
    ELSE <<Head(d)>> \o DropKeys(Tail(d), other)

DictMerge(defaults, given) ==
    [i \in 1..Len(defaults) |->
        IF HasKey(given, defaults[i].key)
        THEN [key |-> defaults[i].key, val |-> ValueOf(given, defaults[i].key)]
        ELSE defaults[i]]
    \o DropKeys(given, defaults)

-----------------------------------------------------------------------------
(* ClusterWrap/clusters.py: the objects                                      *)

NumWrappers == 2

Wrappers == 1..NumWrappers

\* Python's None, for a client, a cluster, an optional argument.
None == <<>>

\* The Client and the cluster a wrapper's constructor creates, and the
\* pre-existing cluster a caller may hand to remote_cluster.
ClientOf(w) == <<"client", w>>

ClusterOf(w) == <<"cluster", w>>

ExternalCluster == <<"cluster", 0>>

ClientIds == {ClientOf(w) : w \in Wrappers}

ClusterIds == {ClusterOf(w) : w \in Wrappers} \cup {ExternalCluster}

\* modify_dask_config's default yaml_name (line 39), and another name.
DefaultYaml == "ClusterWrap.yaml"

YamlNames == {DefaultYaml, "mine.yaml"}

\* Line 41: str(Path.home()) + '/.config/dask/' + yaml_name
YamlPath(name) == <<"~", ".config", "dask", name>>

YamlPaths == {YamlPath(n) : n \in YamlNames}

\* (exc_type, exc_value, traceback) as __exit__ receives them: the body
\* succeeded, or raised.
NoExc == <<"None", "None", "None">>

ExcInfos == {NoExc, <<"ValueError", "bad value", "tb1">>,
             <<"KeyError", "missing", "tb2">>}

\* One call made on an object outside the wrapper.
Call(f, obj, arg) == [f |-> f, obj |-> obj, arg |-> arg]

NoOp == [op |-> "none", w |-> 0, raised |-> "", calls |-> <<>>,
         exc |-> NoExc, ret |-> None]

Op(name, w, raised, calls) ==
    [op |-> name, w |-> w, raised |-> raised, calls |-> calls,
     exc |-> NoExc, ret |-> None]

\* A wrapper not constructed yet.
NoWrapper ==
    [phase |-> "new", kind |-> "none", client |-> None, cluster |-> None,
     yaml_path |-> None, persist_yaml |-> FALSE, adapt |-> None,
     ncpus |-> None, min_workers |-> None, max_workers |-> None]

NoClient == [made |-> FALSE, cluster |-> None, closed |-> FALSE]

NoCluster ==
    [made |-> FALSE, kind |-> "none", exited |-> FALSE, excinfo |-> NoExc,
     workers |-> 0, options |-> <<>>, policy |-> None]

\* dask's own defaults for the keys the model follows.
DaskDefaults ==
    (KeyTmp :> "None") @@ (KeyConnect :> "30s") @@ (KeyTcp :> "30s")

Live(w) == wr[w].phase = "live"

-----------------------------------------------------------------------------
(* _cluster.modify_dask_config, lines 39-45                                  *)

\* A variant of line 43 that dumps the options just given, not the whole
\* configuration.
DumpedDelta(cfg, options) == ConfigSetFresh(cfg, options).config

\* Line 43: yaml.dump(dask.config.config, f): the whole configuration.
Dumped(cfg, options) == cfg

\* The call's effect on the configuration, the files and the wrapper's two
\* attributes. dask.config.set may raise (a scalar in the way of a dotted
\* key), and so may open() (no ~/.config/dask, no permission): the later
\* lines are then not run.
ModifyEffect(me, options, yaml_name, persist_yaml, openFails) ==
    LET r    == ConfigSet(config, options)
        path == YamlPath(yaml_name)
    IN IF r.raised
       THEN [raised |-> "TypeError", config |-> r.config, files |-> files,
             me |-> me, calls |-> <<Call("dask.config.set", None, <<>>)>>]
       ELSE IF openFails
       THEN [raised |-> "OSError", config |-> r.config, files |-> files,
             me |-> me,
             calls |-> <<Call("dask.config.set", None, <<>>),
                         Call("open", path, <<"w">>)>>]
       ELSE [raised |-> "", config |-> r.config,
             files |-> [files EXCEPT ![path] = <<Dumped(r.config, options)>>],
             me |-> [me EXCEPT !.yaml_path = path,
                               !.persist_yaml = persist_yaml],
             calls |-> <<Call("dask.config.set", None, <<>>),
                         Call("open", path, <<"w">>),
                         Call("yaml.dump", path, <<>>)>>]

ModifyDaskConfig(w, options, yaml_name, persist_yaml, openFails) ==
    /\ imported
    /\ Live(w)
    /\ LET m == ModifyEffect(wr[w], options, yaml_name, persist_yaml, openFails)
       IN /\ config' = m.config
          /\ files' = m.files
          /\ wr' = [wr EXCEPT ![w] = m.me]
          /\ lastOp' = Op("modify_dask_config", w, m.raised, m.calls)
    /\ lastOptions' = <<options>>
    /\ UNCHANGED <<cli, clus>>
    /\ UNCHANGED selVars

-----------------------------------------------------------------------------
(* _cluster.set_client, set_cluster, get_dashboard: lines 33-37, 47-49       *)

\* A slurm_cluster's methods call SLURMCluster's adapt(minimum_jobs=...): the
\* model hands it job-queue clusters only.
Compatible(w, c) ==
    c # None => /\ clus[c].made
                /\ wr[w].kind = "slurm_cluster" => clus[c].kind = "slurm"

SetClient(w, client) ==
    /\ imported
    /\ Live(w)
    /\ client # None => cli[client].made
    /\ wr' = [wr EXCEPT ![w].client = client]
    /\ lastOp' = Op("set_client", w, "", <<>>)
    /\ UNCHANGED <<config, files, cli, clus, lastOptions>>
    /\ UNCHANGED selVars

SetCluster(w, c) ==
    /\ imported
    /\ Live(w)
    /\ Compatible(w, c)
    /\ wr' = [wr EXCEPT ![w].cluster = c]
    /\ lastOp' = Op("set_cluster", w, "", <<>>)
    /\ UNCHANGED <<config, files, cli, clus, lastOptions>>
    /\ UNCHANGED selVars

GetDashboard(w) ==
    /\ imported
    /\ Live(w)
    /\ lastOp' = [Op("get_dashboard", w, "", <<>>) EXCEPT
                    !.ret = IF wr[w].cluster # None
                            THEN <<"dashboard_link", wr[w].cluster>>
                            ELSE None]
    /\ UNCHANGED <<config, files, wr, cli, clus, lastOptions>>
    /\ UNCHANGED selVars

-----------------------------------------------------------------------------
(* slurm_cluster.adapt_cluster and change_worker_attributes: lines 195-215   *)

\* The auto-scaling policy cluster.adapt installs, lines 206-211.
Policy(mn, mx) ==
    [minimum_jobs |-> mn, maximum_jobs |-> mx, interval |-> "10s",
     wait_count |-> 6]

\* A variant of lines 202-205 with the tests the other way round: the bounds
\* given are dropped and the stored ones used.
AdaptEffectKeep(me, cs, mn, mx) ==
    IF me.cluster = None
    THEN [raised |-> "AttributeError", me |-> me, clus |-> cs, calls |-> <<>>]
    ELSE [raised |-> "",
          me |-> [me EXCEPT !.adapt = <<Policy(me.min_workers, me.max_workers)>>],
          clus |-> [cs EXCEPT ![me.cluster].policy =
                        <<Policy(me.min_workers, me.max_workers)>>],
          calls |-> <<Call("cluster.adapt", me.cluster,
                           <<me.min_workers, me.max_workers>>)>>]

\* adapt_cluster on the cluster objects cs: the bounds that are not None are
\* stored first, then cluster.adapt is called with the stored bounds
\* (AttributeError when the wrapper holds no cluster).
AdaptEffect(me, cs, mn, mx) ==
    LET me1 == [me EXCEPT !.min_workers = IF mn # None THEN mn ELSE @,
                          !.max_workers = IF mx # None THEN mx ELSE @]
        pol == Policy(me1.min_workers, me1.max_workers)
    IN IF me.cluster = None
       THEN [raised |-> "AttributeError", me |-> me1, clus |-> cs,
             calls |-> <<>>]
       ELSE [raised |-> "",
             me |-> [me1 EXCEPT !.adapt = <<pol>>],
             clus |-> [cs EXCEPT ![me.cluster].policy = <<pol>>],
             calls |-> <<Call("cluster.adapt", me.cluster,
                              <<me1.min_workers, me1.max_workers>>)>>]

AdaptCluster(w, mn, mx) ==
    /\ imported
    /\ Live(w)
    /\ wr[w].kind = "slurm_cluster"
    /\ LET a == AdaptEffect(wr[w], clus, mn, mx)
       IN /\ wr' = [wr EXCEPT ![w] = a.me]
          /\ clus' = a.clus
          /\ lastOp' = Op("adapt_cluster", w, a.raised, a.calls)
    /\ UNCHANGED <<config, files, cli, lastOptions>>
    /\ UNCHANGED selVars

\* Lines 197-198: each keyword is written into new_spec['options'].
RECURSIVE WithOverrides(_, _)
WithOverrides(options, kwargs) ==
    IF kwargs = <<>> THEN options
    ELSE LET k == Head(kwargs)
             o == [x \in DOMAIN options \cup {k.key} |->
                      IF x = k.key THEN k.val ELSE options[x]]
         IN WithOverrides(o, Tail(kwargs))

ChangeEffect(me, mn, mx, kwargs) ==
    LET c == me.cluster
    IN IF c = None
       THEN [raised |-> "AttributeError", me |-> me, clus |-> clus,
             calls |-> <<>>]
       ELSE LET cs == [clus EXCEPT ![c].workers = 0,
                                   ![c].options = WithOverrides(@, kwargs)]
                a  == AdaptEffect(me, cs, mn, mx)
            IN [raised |-> a.raised, me |-> a.me, clus |-> a.clus,
                calls |-> <<Call("cluster.scale", c, <<0>>)>>
                          \o [i \in 1..Len(kwargs) |->
                                Call("options.__setitem__", c, <<kwargs[i].key>>)]
                          \o a.calls]

ChangeWorkerAttributes(w, mn, mx, kwargs) ==
    /\ imported
    /\ Live(w)
    /\ wr[w].kind = "slurm_cluster"
    /\ LET a == ChangeEffect(wr[w], mn, mx, kwargs)
       IN /\ wr' = [wr EXCEPT ![w] = a.me]
          /\ clus' = a.clus
          /\ lastOp' = Op("change_worker_attributes", w, a.raised, a.calls)
    /\ UNCHANGED <<config, files, cli, lastOptions>>
    /\ UNCHANGED selVars

\* The policy at work inside dask (not this repository's code): the pool is
\* grown or shrunk within the installed bounds.
AdaptiveScale(c, n) ==
    /\ imported
    /\ clus[c].made /\ ~clus[c].exited
    /\ clus[c].policy # None
    /\ LET pol == clus[c].policy[1]
       IN n \in pol.minimum_jobs[1]..pol.maximum_jobs[1]
    /\ n # clus[c].workers
    /\ clus' = [clus EXCEPT ![c].workers = n]
    /\ UNCHANGED <<config, files, wr, cli, lastOp, lastOptions>>
    /\ UNCHANGED selVars

-----------------------------------------------------------------------------
(* The constructors: lines 113-190, 231-256, 260-272                          *)

\* Line 165: the RAM of a worker, in GB per cpu.
MemoryPerCpu == 15

\* Lines 130-134, with USER read from the environment.
SlurmDefaults ==
    <<[key |-> KeyTmp,     val |-> Scalar("/local/workdir/temp/USER/")],
      [key |-> KeyConnect, val |-> Scalar("180s")],
      [key |-> KeyTcp,     val |-> Scalar("360s")]>>

\* Lines 19-21, then lines 183-185 (254-256, 270-272): Client(cluster),
\* set_cluster, set_client.
Connected(me, kind, w, c) ==
    [me EXCEPT !.phase = "live", !.kind = kind,
               !.cluster = c, !.client = ClientOf(w)]

\* A variant of Client(cluster) that connects to the default scheduler instead
\* of the cluster it is given.
NewClientDetached(c) == [made |-> TRUE, cluster |-> None, closed |-> FALSE]

\* Client(cluster): a client connected to the cluster.
NewClient(c) == [made |-> TRUE, cluster |-> c, closed |-> FALSE]

\* The constructors' common shape: modify_dask_config(defaults merged with
\* config) under the default file name, and, if that did not raise, the object
\* `built` with the client and cluster objects `cs`.
Construct(w, name, m, built, cs, calls) ==
    /\ imported
    /\ wr[w].phase = "new"
    /\ config' = m.config
    /\ files' = m.files
    /\ IF m.raised # ""
       THEN /\ lastOp' = Op(name, w, m.raised, m.calls)
            /\ UNCHANGED <<wr, cli, clus>>
       ELSE /\ wr' = [wr EXCEPT ![w] = built]
            /\ cli' = [cli EXCEPT ![ClientOf(w)] = NewClient(built.cluster)]
            /\ clus' = cs
            /\ lastOp' = Op(name, w, "", m.calls \o calls)
    /\ UNCHANGED selVars

LocalCluster == [NoCluster EXCEPT !.made = TRUE, !.kind = "local"]

NewLocal(w, given, openFails) ==
    LET opts == DictMerge(<<>>, given)
        m == ModifyEffect(NoWrapper, opts, DefaultYaml, FALSE, openFails)
    IN /\ Construct(w, "local_cluster", m,
                    Connected(m.me, "local_cluster", w, ClusterOf(w)),
                    [clus EXCEPT ![ClusterOf(w)] = LocalCluster], <<>>)
       /\ lastOptions' = <<opts>>

NewRemote(w, c, given, openFails) ==
    LET opts == DictMerge(<<>>, given)
        m == ModifyEffect(NoWrapper, opts, DefaultYaml, FALSE, openFails)
    IN /\ clus[c].made
       /\ Construct(w, "remote_cluster", m,
                    Connected(m.me, "remote_cluster", w, c), clus, <<>>)
       /\ lastOptions' = <<opts>>

\* custom_SLURMCluster(cores=threads, processes=..., memory=..., walltime=...)
\* with threads, processes and walltime at their defaults.
SlurmCluster(ncpus) ==
    [NoCluster EXCEPT
        !.made = TRUE, !.kind = "slurm",
        !.options = ("cores" :> <<ncpus>>)
                    @@ ("memory" :> <<MemoryPerCpu * ncpus, "GB">>)
                    @@ ("walltime" :> <<"3:59">>)]

NewSlurm(w, ncpus, mn, mx, given, openFails) ==
    LET opts == DictMerge(SlurmDefaults, given)
        m == ModifyEffect(NoWrapper, opts, DefaultYaml, FALSE, openFails)
        me == [Connected(m.me, "slurm_cluster", w, ClusterOf(w)) EXCEPT
                  !.ncpus = <<ncpus>>, !.min_workers = mn, !.max_workers = mx]
        a == AdaptEffect(me, [clus EXCEPT ![ClusterOf(w)] = SlurmCluster(ncpus)],
                         mn, mx)
    IN /\ Construct(w, "slurm_cluster", m, a.me, a.clus, a.calls)
       /\ lastOptions' = <<opts>>

-----------------------------------------------------------------------------
(* _cluster.__exit__, lines 26-31 (slurm_cluster.__exit__, lines 192-193,    *)
(* only calls it)                                                            *)

\* Line 31: the three values are passed on as received.
Forwarded(exc) == exc

\* A variant of lines 27-29 that removes the file whatever persist_yaml says.
RemovesAlways(me) == TRUE

\* Line 27: the file is looked at only when persist_yaml is not set.
Removes(me) == ~me.persist_yaml

\* A variant of lines 27-31 with the client closed before the file is removed.
ExitStepsClientFirst == <<"close_client", "remove_yaml", "exit_cluster">>

\* The three steps of lines 27-31, in the order of the code.
ExitSteps == <<"remove_yaml", "close_client", "exit_cluster">>

Logged(st, call) == [st EXCEPT !.calls = Append(@, call)]

\* One step on the running state st = [files, cli, clus, calls, raised]. A step
\* is not run once an earlier one has raised: the code has no try. `fault`
\* names the call the environment makes fail.
RunStep(step, st, me, exc, fault) ==
    IF st.raised # "" THEN st
    ELSE IF step = "remove_yaml" THEN
        IF ~Removes(me) THEN st
        ELSE LET st1 == Logged(st, Call("os.path.exists", me.yaml_path, <<>>))
                 st2 == Logged(st1, Call("os.remove", me.yaml_path, <<>>))
             IN IF st.files[me.yaml_path] = <<>> THEN st1
                ELSE IF fault = "remove" THEN [st2 EXCEPT !.raised = "OSError"]
                ELSE [st2 EXCEPT !.files[me.yaml_path] = <<>>]
    ELSE IF step = "close_client" THEN
        IF me.client = None THEN [st EXCEPT !.raised = "AttributeError"]
        ELSE LET st1 == Logged(st, Call("client.close", me.client, <<>>))
             IN IF fault = "close" THEN [st1 EXCEPT !.raised = "OSError"]
                ELSE [st1 EXCEPT !.cli[me.client].closed = TRUE]
    ELSE
        IF me.cluster = None THEN [st EXCEPT !.raised = "AttributeError"]
        ELSE LET st1 == Logged(st, Call("cluster.__exit__", me.cluster,
                                        Forwarded(exc)))
             IN IF fault = "exit" THEN [st1 EXCEPT !.raised = "OSError"]
                ELSE [st1 EXCEPT !.clus[me.cluster].exited = TRUE,
                                 !.clus[me.cluster].excinfo = Forwarded(exc)]

RECURSIVE RunSteps(_, _, _, _, _)
RunSteps(steps, st, me, exc, fault) ==
    IF steps = <<>> THEN st
    ELSE RunSteps(Tail(steps), RunStep(Head(steps), st, me, exc, fault),
                  me, exc, fault)

Faults == {"none", "remove", "close", "exit"}

Exit(w, exc, fault) ==
    /\ imported
    /\ Live(w)
    /\ LET st == RunSteps(ExitSteps,
                          [files |-> files, cli |-> cli, clus |-> clus,
                           calls |-> <<>>, raised |-> ""],
                          wr[w], exc, fault)
       IN /\ files' = st.files
          /\ cli' = st.cli
          /\ clus' = st.clus
          /\ lastOp' = [Op("__exit__", w, st.raised, st.calls) EXCEPT !.exc = exc]
    /\ wr' = [wr EXCEPT ![w].phase = "exited"]
    /\ UNCHANGED <<config, lastOptions>>
    /\ UNCHANGED selVars

-----------------------------------------------------------------------------
(* The process                                                               *)

\* The inputs the operations are tried with.
MinChoices == {<<1>>, <<2>>}

MaxChoices == {<<2>>, <<3>>}

NcpusChoices == {2, 4}

KwargSets ==
    {<<>>, <<[key |-> "memory", val |-> <<30, "GB">>]>>,
     <<[key |-> "memory", val |-> <<30, "GB">>],
       [key |-> "queue", val |-> <<"short">>]>>}

\* The option dictionaries of the life-cycle specification.
FewOptions == {<<>>, <<[key |-> KeyTmp, val |-> Scalar("/scratch")]>>}

WrapInit ==
    /\ config = DaskDefaults
    /\ files = [p \in YamlPaths |-> <<>>]
    /\ wr = [w \in Wrappers |-> NoWrapper]
    /\ cli = [k \in ClientIds |-> NoClient]
    /\ clus = [c \in ClusterIds |->
                 IF c = ExternalCluster
                 THEN [NoCluster EXCEPT !.made = TRUE, !.kind = "external"]
                 ELSE NoCluster]
    /\ lastOp = NoOp
    /\ lastOptions = <<>>

\* A process on a machine with neither scheduler, about to import the package.
Init ==
    /\ onPath = {}
    /\ status = [e \in Executables |-> Sentinel]
    /\ imported = FALSE
    /\ cluster = "unbound"
    /\ assigned = <<>>
    /\ ran = <<>>
    /\ WrapInit

\* Programs that open wrappers, rewrite the configuration file and leave the
\* wrappers' scopes, with the body succeeding or raising and with any one of
\* the teardown calls failing.
Next ==
    \/ Import
    \/ \E w \in Wrappers, o \in FewOptions, f \in BOOLEAN : NewLocal(w, o, f)
    \/ \E w \in Wrappers, o \in FewOptions, f \in BOOLEAN :
          NewRemote(w, ExternalCluster, o, f)
    \/ \E w \in Wrappers, o \in FewOptions, n \in YamlNames,
          p \in BOOLEAN, f \in BOOLEAN : ModifyDaskConfig(w, o, n, p, f)
    \/ \E w \in Wrappers, e \in ExcInfos, f \in Faults : Exit(w, e, f)

Spec == Init /\ [][Next]_vars

\* Programs that hold one wrapper and call its public operations while it is
\* in scope.
OpsNext ==
    \/ Import
    \/ \E o \in FewOptions : NewLocal(1, o, FALSE)
    \/ \E c \in ClusterIds, o \in FewOptions : NewRemote(1, c, o, FALSE)
    \/ \E n \in NcpusChoices, mn \in MinChoices, mx \in MaxChoices,
          o \in FewOptions : NewSlurm(1, n, mn, mx, o, FALSE)
    \/ \E o \in FewOptions : ModifyDaskConfig(1, o, DefaultYaml, FALSE, FALSE)
    \/ \E k \in ClientIds \cup {None} : SetClient(1, k)
    \/ \E c \in ClusterIds \cup {None} : SetCluster(1, c)
    \/ GetDashboard(1)
    \/ \E mn \in MinChoices \cup {None}, mx \in MaxChoices \cup {None} :
          AdaptCluster(1, mn, mx)
    \/ \E mn \in MinChoices, mx \in MaxChoices, k \in KwargSets :
          ChangeWorkerAttributes(1, mn, mx, k)
    \/ \E c \in ClusterIds, n \in 0..3 : AdaptiveScale(c, n)

OpsSpec == Init /\ [][OpsNext]_vars

\* The option dictionaries of the configuration specification: up to
\* MaxOptions entries with different keys, in the dictionary's order.
MaxOptions == 2

OptionEntries ==
    {[key |-> KeyTmp,      val |-> Scalar("/scratch")],
     [key |-> KeyTmpAlt,   val |-> Scalar("/tmp")],
     [key |-> KeyTimeouts, val |-> (<<"tcp">> :> "10s")],
     [key |-> KeyTimeouts, val |-> Scalar("off")],
     [key |-> KeyConnect,  val |-> Scalar("60s")]}

OptionSets ==
    {o \in UNION {[1..n -> OptionEntries] : n \in 0..MaxOptions} :
        \A i, j \in 1..Len(o) : i # j => o[i].key # o[j].key}

\* Programs that open wrappers and call modify_dask_config, on one wrapper or
\* another, with any of the option dictionaries.
CfgNext ==
    \/ Import
    \/ \E w \in Wrappers : NewLocal(w, <<>>, FALSE)
    \/ \E w \in Wrappers, o \in FewOptions :
          NewSlurm(w, 4, <<1>>, <<2>>, o, FALSE)
    \/ \E w \in Wrappers, o \in OptionSets :
          ModifyDaskConfig(w, o, DefaultYaml, FALSE, FALSE)

CfgSpec == Init /\ [][CfgNext]_vars

\* A process about to import the package: any search path, any outcome of the
\* checks; an executable that is not on the path is "command not found".
SelInit ==
    /\ onPath \in SUBSET Executables
    /\ status \in [Executables -> Statuses]
    /\ \A e \in Executables : e \notin onPath => status[e] = Sentinel
    /\ imported = FALSE
    /\ cluster = "unbound"
    /\ assigned = <<>>
    /\ ran = <<>>
    /\ WrapInit

SelNext == Import

SelSpec == SelInit /\ [][SelNext]_vars

-----------------------------------------------------------------------------
(* Claims about the import-time selection, checked under SelSpec             *)

InSeq(x, s) == \E i \in 1..Len(s) : s[i] = x

\* What lines 8-10 selected: the high-throughput variant was bound at some point.
Step1Selected == InSeq("janelia_lsf_cluster", assigned)

\* C4 (as stated): bsub on the path and a raw status EQUAL to the sentinel
\* select the high-throughput variant, unless the batch-queue variant is selected.
C4_Original ==
    (imported /\ Which("bsub") /\ status["bsub"] = Sentinel
        /\ cluster # "slurm_cluster")
    => cluster = "janelia_lsf_cluster"

\* C4 (amended): bsub on the path and a raw status that DIFFERS from the
\* sentinel 32512 select the high-throughput variant, unless the batch-queue
\* variant is selected; with a status equal to the sentinel it is never selected.
C4_Amended ==
    imported =>
        /\ (Which("bsub") /\ status["bsub"] # Sentinel /\ cluster # "slurm_cluster")
              => cluster = "janelia_lsf_cluster"
        /\ (Which("bsub") /\ status["bsub"] = Sentinel)
              => cluster # "janelia_lsf_cluster"

C4_Witness ==
    /\ imported /\ Which("bsub") /\ status["bsub"] = 0
    /\ cluster = "janelia_lsf_cluster"

\* C5 (as stated): the probes are an if / else-if chain: the srun check is run
\* only when bsub is not on the path, and once lines 8-10 have selected the
\* high-throughput variant it is the final default.
C5_Original ==
    imported =>
        /\ Step1Selected => cluster = "janelia_lsf_cluster"
        /\ Which("bsub") => ~InSeq(Command("srun"), ran)

\* C5 (amended): the probes are two independent ifs run in the order bsub, srun:
\* the srun check is run whenever srun is on the path, and the final default is
\* the high-throughput variant exactly when lines 8-10 selected it and the srun
\* check did not select the batch-queue variant.
C5_Amended ==
    imported =>
        /\ InSeq(Command("srun"), ran) <=> Which("srun")
        /\ cluster = "janelia_lsf_cluster"
              <=> (Step1Selected
                   /\ ~(Which("srun") /\ WEXITSTATUS(status["srun"]) = 0))
        /\ \A i, j \in 1..Len(ran) :
              (ran[i] = Command("bsub") /\ ran[j] = Command("srun")) => i < j

C5_Witness ==
    /\ imported /\ Step1Selected /\ cluster = "slurm_cluster"
    /\ ran = <<Command("bsub"), Command("srun")>>

\* C6: srun on the path and a decoded exit status of 0 make the default the
\* batch-queue variant, whatever bsub's presence and check.
C6_SrunWins ==
    (imported /\ Which("srun") /\ WEXITSTATUS(status["srun"]) = 0)
    => cluster = "slurm_cluster"

C6_Witness ==
    /\ imported /\ Which("srun") /\ status["srun"] = 9
    /\ Step1Selected /\ cluster = "slurm_cluster"

\* C7: with no executable on the path, or with every executable on the path
\* failing its check (bsub: raw status 32512; srun: decoded status not 0), the
\* import ends with the local variant bound; no command is run for an
\* executable that is not on the path, and the import always ends with one of
\* the three factories bound.
C7_Fallback ==
    /\ imported =>
        /\ cluster \in Factories
        /\ ((Which("bsub") => status["bsub"] = Sentinel)
             /\ (Which("srun") => WEXITSTATUS(status["srun"]) # 0))
              => cluster = "local_cluster"
        /\ \A e \in Executables : InSeq(Command(e), ran) => Which(e)
    /\ ~imported => ENABLED Import

C7_Witness ==
    /\ imported /\ onPath = {"bsub", "srun"}
    /\ status["bsub"] = Sentinel /\ status["srun"] = 256
    /\ cluster = "local_cluster" /\ Len(ran) = 2

-----------------------------------------------------------------------------
(* Claims about the scoped teardown, checked under Spec                      *)

Called(f) == \E i \in 1..Len(lastOp.calls) : lastOp.calls[i].f = f

\* The most recent operation was an __exit__ in which the call f raised.
ExitFailedAt(f) ==
    /\ lastOp.op = "__exit__" /\ lastOp.raised # ""
    /\ lastOp.calls # <<>> /\ Last(lastOp.calls).f = f

\* The step from s to s' is wrapper w leaving its scope.
ExitStepOf(w) == wr[w].phase = "live" /\ wr'[w].phase = "exited"

\* C1 (as stated): once a wrapper's __exit__ has run, the file at its yaml_path
\* does not exist if its persist_yaml is False and exists if it is True, other
\* wrappers using the same file name included.
C1_Original ==
    \A w \in Wrappers :
        (lastOp.op = "__exit__" /\ lastOp.w = w /\ lastOp.raised = "")
        => (files[wr[w].yaml_path] = <<>> <=> ~wr[w].persist_yaml)

\* C1 (amended): when a wrapper leaves its scope, the file at its yaml_path
\* does not exist afterwards if persist_yaml is False (unless os.remove itself
\* failed); if persist_yaml is True, __exit__ leaves every file as it was, so
\* the file exists afterwards exactly if it existed before: another wrapper
\* with the same file name and persist_yaml False may have removed it. No
\* other file is touched.
C1_Amended ==
    [][\A w \in Wrappers :
         ExitStepOf(w) =>
            /\ wr[w].persist_yaml => files' = files
            /\ (~wr[w].persist_yaml /\ ~ExitFailedAt("os.remove")')
                  => files'[wr[w].yaml_path] = <<>>
            /\ \A p \in YamlPaths : p # wr[w].yaml_path => files'[p] = files[p]
      ]_vars

C1_Witness ==
    \E w, v \in Wrappers :
        /\ w # v
        /\ lastOp.op = "__exit__" /\ lastOp.w = w /\ lastOp.raised = ""
        /\ wr[w].persist_yaml /\ wr[v].phase = "exited"
        /\ wr[v].yaml_path = wr[w].yaml_path /\ ~wr[v].persist_yaml
        /\ files[wr[w].yaml_path] = <<>>

\* C2: in __exit__, a failing os.remove does not keep the client from being
\* closed and the cluster from being torn down, and a failing client.close()
\* does not keep the cluster's __exit__ from being called.
C2_RunsAllSteps ==
    /\ ExitFailedAt("os.remove")
          => Called("client.close") /\ Called("cluster.__exit__")
    /\ ExitFailedAt("client.close") => Called("cluster.__exit__")

\* C3: an __exit__ in which no step fails, whatever exception information it
\* receives, makes its calls in this order: the file check and removal (only
\* without persist_yaml), client.close(), then the cluster's __exit__ with the
\* exception information as received; afterwards the file is gone (without
\* persist_yaml), the client is closed and the cluster has been torn down with
\* that exception information.
C3_TeardownOrder ==
    (lastOp.op = "__exit__" /\ lastOp.raised = "") =>
        LET me     == wr[lastOp.w]
            exists == <<Call("os.path.exists", me.yaml_path, <<>>)>>
            remove == <<Call("os.remove", me.yaml_path, <<>>)>>
            rest   == <<Call("client.close", me.client, <<>>),
                        Call("cluster.__exit__", me.cluster, lastOp.exc)>>
        IN /\ me.persist_yaml => lastOp.calls = rest
           /\ ~me.persist_yaml =>
                 /\ lastOp.calls \in {exists \o rest, exists \o remove \o rest}
                 /\ files[me.yaml_path] = <<>>
           /\ cli[me.client].closed
           /\ clus[me.cluster].exited
           /\ clus[me.cluster].excinfo = lastOp.exc

C3_Witness ==
    /\ lastOp.op = "__exit__" /\ lastOp.raised = ""
    /\ lastOp.exc # NoExc
    /\ Len(lastOp.calls) = 4
    /\ ~wr[lastOp.w].persist_yaml

-----------------------------------------------------------------------------
(* Claims about the wrapper's operations, checked under OpsSpec              *)

\* The wrapper holds a client and a cluster, and the client is the one
\* connected to that cluster.
Paired(w) ==
    /\ wr[w].client # None /\ wr[w].cluster # None
    /\ cli[wr[w].client].made /\ clus[wr[w].cluster].made
    /\ cli[wr[w].client].cluster = wr[w].cluster

\* C8 (as stated): while a wrapper is in scope, whatever public operations
\* have been called, set_client and set_cluster among them, it holds a client
\* and a cluster and the client is connected to that cluster.
C8_Original == \A w \in Wrappers : Live(w) => Paired(w)

\* C8 (amended): a constructor that returns leaves the wrapper holding a client
\* and a cluster with the client connected to that cluster, and every
\* operation other than set_client and set_cluster keeps it so;
\* set_client and set_cluster store whatever they are given, None or an
\* object of another pair included.
C8_Amended ==
    [][\A w \in Wrappers :
         LET setter == \/ \E k \in ClientIds \cup {None} : SetClient(w, k)
                       \/ \E c \in ClusterIds \cup {None} : SetCluster(w, c)
         IN /\ (wr[w].phase = "new" /\ Live(w)') => Paired(w)'
            /\ (Live(w) /\ Paired(w) /\ ~setter) =>
                  /\ Paired(w)'
                  /\ wr'[w].client = wr[w].client
                  /\ wr'[w].cluster = wr[w].cluster
      ]_vars

C8_Witness ==
    /\ Live(1) /\ Paired(1) /\ wr[1].kind = "slurm_cluster"
    /\ lastOp.op = "change_worker_attributes" /\ lastOp.raised = ""

\* C10: on a batch-queue wrapper that holds its cluster,
\* change_worker_attributes(min, max, **kwargs) calls cluster.scale(0), then
\* writes each keyword into the stored options, then calls cluster.adapt;
\* afterwards the pool is at zero workers, the installed policy's bounds and
\* the wrapper's min_workers/max_workers are the given min and max, and the
\* stored options hold each override.
C10_ChangeWorkerAttributes ==
    [][\A w \in Wrappers, mn \in MinChoices, mx \in MaxChoices, k \in KwargSets :
         (ChangeWorkerAttributes(w, mn, mx, k) /\ wr[w].cluster # None) =>
            LET c == wr[w].cluster
                n == Len(k)
            IN /\ lastOp'.raised = ""
               /\ Len(lastOp'.calls) = n + 2
               /\ lastOp'.calls[1] = Call("cluster.scale", c, <<0>>)
               /\ \A i \in 1..n :
                     lastOp'.calls[i + 1] =
                         Call("options.__setitem__", c, <<k[i].key>>)
               /\ lastOp'.calls[n + 2] = Call("cluster.adapt", c, <<mn, mx>>)
               /\ clus'[c].workers = 0
               /\ \A i \in 1..n : clus'[c].options[k[i].key] = k[i].val
               /\ \A x \in DOMAIN clus[c].options :
                     (\A i \in 1..n : k[i].key # x)
                        => clus'[c].options[x] = clus[c].options[x]
               /\ clus'[c].policy = <<Policy(mn, mx)>>
               /\ wr'[w].adapt = <<Policy(mn, mx)>>
               /\ wr'[w].min_workers = mn /\ wr'[w].max_workers = mx
      ]_vars

C10_Witness ==
    /\ lastOp.op = "change_worker_attributes" /\ lastOp.raised = ""
    /\ Len(lastOp.calls) = 4
    /\ wr[1].min_workers = <<2>> /\ wr[1].max_workers = <<3>>
    /\ clus[wr[1].cluster].options["memory"] = <<30, "GB">>
    /\ clus[wr[1].cluster].options["cores"] = <<4>>
    /\ clus[wr[1].cluster].workers = 0

-----------------------------------------------------------------------------
(* Claims about the configuration, checked under CfgSpec                     *)

\* A key with every segment in the hyphen spelling.
Hyphened(key) ==
    [i \in 1..Len(key) |->
        IF key[i] = "temporary_directory" THEN "temporary-directory" ELSE key[i]]

\* dask takes two keys for the same or for nested entries: one is a dotted
\* prefix of the other, the spelling of hyphens and underscores aside.
Related(k1, k2) ==
    \/ IsPrefix(Hyphened(k1), Hyphened(k2))
    \/ IsPrefix(Hyphened(k2), Hyphened(k1))

\* The step is a modify_dask_config call (a constructor's or a direct one)
\* that returns, after an earlier such call that returned.
SecondCall ==
    /\ imported /\ lastOptions # <<>> /\ lastOp.raised = ""
    /\ lastOp'.raised = ""

\* The file the call has just written holds the whole configuration.
WholeFileWritten ==
    files'[wr'[lastOp'.w].yaml_path] = <<config'>>

\* Two spellings of one key, and a dictionary's value for a key (that of its
\* last entry under either spelling).
SameKey(k1, k2) == Hyphened(k1) = Hyphened(k2)

Mentions(O, k) == \E i \in 1..Len(O) : SameKey(O[i].key, k)

ValueIn(O, k) ==
    LET is == {i \in 1..Len(O) : SameKey(O[i].key, k)}
    IN O[CHOOSE i \in is : \A j \in is : j <= i].val

\* C9 (as stated): after two consecutive modify_dask_config calls with options
\* A then B, every key of B has B's value, every key of A that is not in B
\* keeps A's value, every earlier key in neither keeps its value, and the file
\* holds the whole merged configuration. (Keys that differ only in the spelling
\* of hyphens and underscores are taken as one key.)
C9_Original ==
    [][SecondCall =>
         LET A == lastOptions[1]
             B == lastOptions'[1]
         IN /\ \A i \in 1..Len(B) :
                  ConfigGet(config', B[i].key) = ValueIn(B, B[i].key)
            /\ \A i \in 1..Len(A) :
                  ~Mentions(B, A[i].key)
                     => ConfigGet(config', A[i].key) = ValueIn(A, A[i].key)
            /\ \A p \in DOMAIN config :
                  (~Mentions(A, p) /\ ~Mentions(B, p))
                     => (p \in DOMAIN config' /\ config'[p] = config[p])
            /\ WholeFileWritten
      ]_vars

\* C9 (amended): the same for keys that are not nested in one another: after
\* two consecutive calls that return, with options A then B, every key of B
\* that is not related to another key of B has B's value, every key of A that
\* is related neither to another key of A nor to a key of B keeps A's value,
\* every earlier entry not related to a key of B keeps its value, and the file
\* holds the whole merged configuration. (A key that is a dotted prefix of
\* another replaces everything below it.)
C9_Amended ==
    [][SecondCall =>
         LET A == lastOptions[1]
             B == lastOptions'[1]
         IN /\ \A i \in 1..Len(B) :
                  (\A j \in 1..Len(B) : j # i => ~Related(B[i].key, B[j].key))
                     => ConfigGet(config', B[i].key) = B[i].val
            /\ \A i \in 1..Len(A) :
                  (/\ \A j \in 1..Len(A) : j # i => ~Related(A[i].key, A[j].key)
                   /\ \A j \in 1..Len(B) : ~Related(A[i].key, B[j].key))
                     => ConfigGet(config', A[i].key) = A[i].val
            /\ \A p \in DOMAIN config :
                  (\A j \in 1..Len(B) : ~Related(p, B[j].key))
                     => (p \in DOMAIN config' /\ config'[p] = config[p])
            /\ WholeFileWritten
      ]_vars

\* Two calls on different wrappers have been merged: the second one's key has
\* its value, the first one's other key still has its own, and the file holds
\* both.
C9_Witness ==
    /\ lastOp.op = "modify_dask_config" /\ lastOp.w = 2 /\ lastOp.raised = ""
    /\ lastOptions = <<<<[key |-> KeyConnect, val |-> Scalar("60s")]>>>>
    /\ wr[1].phase = "live"
    /\ config[KeyTmp] = "/tmp"
    /\ config[KeyConnect] = "60s"
    /\ files[YamlPath(DefaultYaml)] = <<config>>

=============================================================================
